---- MODULE Spec2Model ----
(***************************************************************************)
(* RPIOUARTDriver (libraries/AP_Airspeed/AP_Airspeed.cpp, lines 296-520):  *)
(* a UART-like byte transport relayed over a shared SPI bus in fixed-size   *)
(* register packets.  Two contexts share the driver object: the             *)
(* application context (begin, write, read) and the timer context           *)
(* (_timer_tick).  Each context is a small program counter machine; one     *)
(* action is one run of statements between two accesses that the other      *)
(* context can observe.                                                     *)
(***************************************************************************)
EXTENDS Integers, Sequences, FiniteSets, TLC

(***************************************************************************)
(* Program constants                                                        *)
(***************************************************************************)
RPIOUART_POLL_TIME_INTERVAL == 10000

\* begin(): sizes below MIN_BUF_SIZE are replaced by DEFAULT_BUF_SIZE
MIN_BUF_SIZE == 1024

DEFAULT_BUF_SIZE == 2048

\* px4io_protocol.h is not part of the tree: page and opcode values as the
\* protocol description gives them (a UART buffer page, three opcodes in the
\* high bits of count_code).
PX4IO_PAGE_UART_BUFFER == 120

PKT_CODE_READ == 0

PKT_CODE_WRITE == 64

PKT_CODE_SPIUART == 192

U16 == 65536

(***************************************************************************)
(* Bounds of the model                                                      *)
(***************************************************************************)
\* registers per packet (the header that fixes it is not in the tree); the
\* negotiation packet uses regs[0] and regs[1], so at least 2
PKT_MAX_REGS == 2

\* bytes the application writes in one run
MaxWrites == 5

\* bytes the inbound buffer holds before the remote side stops sending
MaxInbound == 4

\* the monotonic clock advances MaxClockSteps times, one poll interval a time
MaxClockSteps == 2

ClockStep == RPIOUART_POLL_TIME_INTERVAL

\* bytes of one write or read call
MaxChunk == 2

\* baud rates: none, a usual one, and one whose byte budget does not fit 16 bits
\* (65538000 / 10 / 100 = 65538)
Bauds == {0, 57600, 65538000}

\* baud rates of the runs on the draining of the outbound buffer: those of Bauds
\* and one whose byte budget is 65536, 0 in 16 bits
DrainBauds == {0, 57600, 65536000, 65538000}

\* baud rates of the runs with a hardware serial device
DeviceBauds == {0, 57600}

\* requested buffer sizes: below the threshold, just below it, at it
ReqSizes == {0, 1023, 1024}

\* offsets a response packet reports
RxOffsets == {0, 1, 2 * PKT_MAX_REGS + 1}

(***************************************************************************)
(* Helpers                                                                  *)
(***************************************************************************)
Min(a, b) == IF a < b THEN a ELSE b

Take(s, k) == SubSeq(s, 1, Min(k, Len(s)))

Drop(s, k) == SubSeq(s, Min(k, Len(s)) + 1, Len(s))

\* the byte capacity of the register array: PKT_MAX_REGS * 2
PktBytes == PKT_MAX_REGS * 2

\* ((uint8_t *)regs)[i]: the register array seen as bytes (low byte first)
RegsOfBytes(bytes) ==
    [r \in 1..PKT_MAX_REGS |->
        (IF 2 * r - 1 <= Len(bytes) THEN bytes[2 * r - 1] ELSE 0)
      + 256 * (IF 2 * r <= Len(bytes) THEN bytes[2 * r] ELSE 0)]

\* mutant: the register array read high byte first
BytesOfRegs_HighFirst(regs, k) ==
    [i \in 1..k |->
        IF i % 2 = 1 THEN regs[(i + 1) \div 2] \div 256
                     ELSE regs[i \div 2] % 256]

BytesOfRegs(regs, k) ==
    [i \in 1..k |->
        IF i % 2 = 1 THEN regs[(i + 1) \div 2] % 256
                     ELSE regs[i \div 2] \div 256]

ZeroRegs == [r \in 1..PKT_MAX_REGS |-> 0]

\* struct IOPacket x = {0}
ZeroPacket == [count_code |-> 0, page |-> 0, offset |-> 0, regs |-> ZeroRegs]

\* the WRITE packet of the negotiation step
BaudPacket(baud) ==
    [count_code |-> 2 + PKT_CODE_WRITE,
     page       |-> PX4IO_PAGE_UART_BUFFER,
     offset     |-> 0,
     regs       |-> [r \in 1..PKT_MAX_REGS |->
                        IF r = 1 THEN baud % U16
                        ELSE IF r = 2 THEN baud \div U16
                        ELSE 0]]

\* uint16_t _max_size = _baudrate / 10 / (1000000 / RPIOUART_POLL_TIME_INTERVAL)
MaxSize(baud) ==
    ((baud \div 10) \div (1000000 \div RPIOUART_POLL_TIME_INTERVAL)) % U16

\* mutant: the outbound step never takes a byte
OutboundCount_None(avail, baud) == 0

\* n after the two clamps of the outbound step
OutboundCount(avail, baud) ==
    LET n1 == IF avail > PktBytes THEN PktBytes ELSE avail
    IN  IF n1 > MaxSize(baud) THEN MaxSize(baud) ELSE n1

\* the bulk-transfer packet of the outbound step
UartPacket(bytes, cnt) ==
    [count_code |-> PKT_MAX_REGS + PKT_CODE_SPIUART,
     page       |-> PX4IO_PAGE_UART_BUFFER,
     offset     |-> cnt % U16,
     regs       |-> RegsOfBytes(bytes)]

\* the READ packet of the inbound step
ReadPacket ==
    [count_code |-> 0 + PKT_CODE_READ, page |-> 0, offset |-> 0, regs |-> ZeroRegs]

\* mutant: n of the inbound step without the clamp to the reported offset
InboundCount_NoOffset(space, resp) ==
    IF space > PktBytes THEN PktBytes ELSE space

\* n of the inbound step, given the space and the response
InboundCount(space, resp) ==
    LET n1 == IF space > resp.offset THEN resp.offset ELSE space
    IN  IF n1 > PktBytes THEN PktBytes ELSE n1

\* mutant: begin() without the clamp of the sizes
ClampSize_Keep(s) == s

\* begin(): the size a buffer is asked to take
ClampSize(s) == IF s < MIN_BUF_SIZE THEN DEFAULT_BUF_SIZE ELSE s

(***************************************************************************)
(* ByteBuffer: a bounded byte queue                                         *)
(***************************************************************************)
BufAvailable(buf) == Len(buf.data)

BufSpace(buf) == buf.size - Len(buf.data)

BufRead(buf, k) == [buf EXCEPT !.data = Drop(buf.data, k)]

BufWrite(buf, bytes) == [buf EXCEPT !.data = buf.data \o Take(bytes, BufSpace(buf))]

\* set_size: a fresh, empty buffer of the size, or no buffer when allocation fails
BufSetSize(s, ok) == [size |-> IF ok THEN s ELSE 0, data |-> <<>>]

(***************************************************************************)
(* State                                                                    *)
(***************************************************************************)
VARIABLES
    device_path,             \* "null": no hardware serial device is configured;
                             \* "dev": one is configured and initialises;
                             \* "bad": one is configured and fails to initialise
    hwTicks,                 \* hardware UART: 1 once its service routine has run, else 0
    _external,
    _initialised,
    _in_timer,
    _need_set_baud,
    _baudrate,
    _last_update_timestamp,
    _readbuf,
    _writebuf,
    sem,                     \* holder of the bus semaphore: "free", "rpio", "other"
    clock,                   \* AP_HAL::micros()
    pcB,                     \* position of the application context in begin()
    argB,                    \* begin()'s parameters b, rxS, txS (and the sizes requested)
    pcT,                     \* position of the timer context in _timer_tick()
    n,                       \* _timer_tick()'s local n
    rx,                      \* _timer_tick()'s local _dma_packet_rx
    xfers,                   \* history: bus transfers of the running tick
    cleared,                 \* history: the running tick cleared _need_set_baud
    entryInTimer,            \* history: _in_timer when the running tick was invoked
    entryLow,                \* history: elapsed time was below the interval at invocation
    clears,                  \* history: clears of _need_set_baud since begin() set it
    written,                 \* history: bytes the application has put in _writebuf
    begins                   \* history: 1 once begin() has been called, else 0

driverVars == <<device_path, hwTicks, _external, _initialised, _in_timer, _need_set_baud,
                _baudrate, _last_update_timestamp, _readbuf, _writebuf>>

beginVars == <<pcB, argB, begins>>

tickVars == <<pcT, n, rx, xfers, cleared, entryInTimer, entryLow>>

vars == <<driverVars, sem, clock, beginVars, tickVars, clears, written>>

\* AP_HAL::micros() - _last_update_timestamp: the stamp is an earlier reading of
\* the same clock, and the clock of the model stays far below 2^32, so the
\* unsigned difference never wraps
Elapsed == clock - _last_update_timestamp

\* no begin() call is running; reqRx and reqTx keep the sizes as the caller gave them
NoArgs == [b |-> 0, rxS |-> 0, txS |-> 0, reqRx |-> 0, reqTx |-> 0]

\* RPIOUARTDriver::RPIOUARTDriver(), on a board without a hardware serial device
Init ==
    /\ device_path = "null"
    /\ hwTicks = 0
    /\ _external = FALSE
    /\ _initialised = FALSE
    /\ _in_timer = FALSE
    /\ _need_set_baud = FALSE
    /\ _baudrate = 0
    /\ _last_update_timestamp = 0
    /\ _readbuf = [size |-> 0, data |-> <<>>]
    /\ _writebuf = [size |-> 0, data |-> <<>>]
    /\ sem = "free"
    /\ clock = 0
    /\ pcB = "idle"
    /\ argB = NoArgs
    /\ pcT = "idle"
    /\ n = 0
    /\ rx = ZeroPacket
    /\ xfers = <<>>
    /\ cleared = FALSE
    /\ entryInTimer = FALSE
    /\ entryLow = FALSE
    /\ clears = 0
    /\ written = 0
    /\ begins = 0

(***************************************************************************)
(* Application context: begin()                                             *)
(***************************************************************************)
\* lines 352-358: a hardware serial device is configured and UARTDriver::begin()
\* initialises it; begin() marks the transport external and returns
BeginExternal(b, rxS, txS) ==
    /\ pcB = "idle"
    /\ device_path = "dev"
    /\ _external' = TRUE
    /\ begins' = 1
    /\ UNCHANGED <<device_path, hwTicks, _initialised, _in_timer, _need_set_baud,
                   _baudrate, _last_update_timestamp, _readbuf, _writebuf, sem,
                   clock, pcB, argB, tickVars, clears, written>>

\* lines 352-367: no hardware device took over (none is configured, or the one
\* configured did not initialise); clamp the sizes, clear _initialised
BeginCall(b, rxS, txS) ==
    /\ pcB = "idle"
    /\ device_path # "dev"
    /\ begins' = 1
    /\ argB' = [b |-> b, rxS |-> ClampSize(rxS), txS |-> ClampSize(txS),
                reqRx |-> rxS, reqTx |-> txS]
    /\ _initialised' = FALSE
    /\ pcB' = "wait_timer"
    /\ UNCHANGED <<device_path, hwTicks, _external, _in_timer, _need_set_baud, _baudrate,
                   _last_update_timestamp, _readbuf, _writebuf, sem, clock,
                   tickVars, clears, written>>

\* line 368: while (_in_timer) delay(1)
BeginWaitTimer ==
    /\ pcB = "wait_timer"
    /\ ~_in_timer
    /\ pcB' = "set_size"
    /\ UNCHANGED <<driverVars, sem, clock, argB, begins, tickVars, clears, written>>

\* lines 370-373: size the two buffers
BeginSetSize(rOk, wOk) ==
    /\ pcB = "set_size"
    /\ _readbuf' = BufSetSize(argB.rxS, rOk)
    /\ _writebuf' = BufSetSize(argB.txS, wOk)
    /\ pcB' = "set_baud"
    /\ UNCHANGED <<device_path, hwTicks, _external, _initialised, _in_timer, _need_set_baud,
                   _baudrate, _last_update_timestamp, sem, clock, argB, begins,
                   tickVars, clears, written>>

\* lines 376-377: record the baud rate and request the negotiation
BeginSetBaud ==
    /\ pcB = "set_baud"
    /\ _baudrate' = argB.b
    /\ _need_set_baud' = TRUE
    /\ clears' = 0
    /\ pcB' = "wait_baud"
    /\ UNCHANGED <<device_path, hwTicks, _external, _initialised, _in_timer,
                   _last_update_timestamp, _readbuf, _writebuf, sem, clock, argB,
                   begins, tickVars, written>>

\* lines 378-385: while (_need_set_baud) delay(1); then mark initialised and return
BeginFinish ==
    /\ pcB = "wait_baud"
    /\ ~_need_set_baud
    /\ _initialised' = IF _writebuf.size # 0 /\ _readbuf.size # 0 THEN TRUE ELSE _initialised
    /\ pcB' = "idle"
    /\ argB' = NoArgs
    /\ UNCHANGED <<device_path, hwTicks, _external, _in_timer, _need_set_baud, _baudrate,
                   _last_update_timestamp, _readbuf, _writebuf, sem, clock, begins,
                   tickVars, clears, written>>

(***************************************************************************)
(* Timer context: _timer_tick()                                             *)
(***************************************************************************)
\* a transfer on the bus, as the history records it: the packet sent, and
\* whether the driver held the semaphore
Xfer(pkt) == [pkt |-> pkt, locked |-> (sem = "rpio")]

\* return from _timer_tick(): the locals and the history of the tick end
TickReturn ==
    /\ pcT' = "idle"
    /\ n' = 0
    /\ rx' = ZeroPacket
    /\ xfers' = <<>>
    /\ cleared' = FALSE
    /\ entryInTimer' = FALSE
    /\ entryLow' = FALSE

\* lines 407-410: in external mode the tick is the hardware UART's service
\* routine, and nothing else
TickExternal ==
    /\ pcT = "idle"
    /\ _external
    /\ hwTicks' = 1
    /\ UNCHANGED <<device_path, _external, _initialised, _in_timer, _need_set_baud,
                   _baudrate, _last_update_timestamp, _readbuf, _writebuf, sem,
                   clock, beginVars, tickVars, clears, written>>

\* mutant: the tick does not test _external
TickEnter_IgnoreExternal ==
    /\ pcT = "idle"
    /\ entryInTimer' = _in_timer
    /\ entryLow' = (Elapsed < RPIOUART_POLL_TIME_INTERVAL)
    /\ pcT' = IF _need_set_baud
              THEN (IF _baudrate # 0 THEN "nego_take" ELSE "nego_clear")
              ELSE "chk_init"
    /\ UNCHANGED <<driverVars, sem, clock, beginVars, n, rx, xfers, cleared,
                   clears, written>>

\* mutant: with a zero baud rate the tick still attempts the semaphore
TickEnter_ZeroBaudLocks ==
    /\ pcT = "idle"
    /\ ~_external
    /\ entryInTimer' = _in_timer
    /\ entryLow' = (Elapsed < RPIOUART_POLL_TIME_INTERVAL)
    /\ pcT' = IF _need_set_baud THEN "nego_take" ELSE "chk_init"
    /\ UNCHANGED <<driverVars, sem, clock, beginVars, n, rx, xfers, cleared,
                   clears, written>>

\* mutant: with a zero baud rate the negotiation block is skipped whole, the
\* clearing of _need_set_baud included
TickEnter_ZeroBaudSkips ==
    /\ pcT = "idle"
    /\ ~_external
    /\ entryInTimer' = _in_timer
    /\ entryLow' = (Elapsed < RPIOUART_POLL_TIME_INTERVAL)
    /\ pcT' = IF _need_set_baud /\ _baudrate # 0 THEN "nego_take" ELSE "chk_init"
    /\ UNCHANGED <<driverVars, sem, clock, beginVars, n, rx, xfers, cleared,
                   clears, written>>

\* mutant: the pending flag is cleared without the negotiation packet being sent
TickEnter_SkipNego ==
    /\ pcT = "idle"
    /\ ~_external
    /\ entryInTimer' = _in_timer
    /\ entryLow' = (Elapsed < RPIOUART_POLL_TIME_INTERVAL)
    /\ pcT' = IF _need_set_baud THEN "nego_clear" ELSE "chk_init"
    /\ UNCHANGED <<driverVars, sem, clock, beginVars, n, rx, xfers, cleared,
                   clears, written>>

\* lines 407-415: not external; test _need_set_baud and _baudrate
TickEnter ==
    /\ pcT = "idle"
    /\ ~_external
    /\ entryInTimer' = _in_timer
    /\ entryLow' = (Elapsed < RPIOUART_POLL_TIME_INTERVAL)
    /\ pcT' = IF _need_set_baud
              THEN (IF _baudrate # 0 THEN "nego_take" ELSE "nego_clear")
              ELSE "chk_init"
    /\ UNCHANGED <<driverVars, sem, clock, beginVars, n, rx, xfers, cleared,
                   clears, written>>

\* lines 417-419: take_nonblocking() of the negotiation step
TickNegoTake ==
    /\ pcT = "nego_take"
    /\ \/ /\ sem = "free"
          /\ sem' = "rpio"
          /\ pcT' = "nego_xfer"
          /\ UNCHANGED <<n, rx, xfers, cleared, entryInTimer, entryLow>>
       \/ /\ sem # "free"
          /\ sem' = sem
          /\ TickReturn
    /\ UNCHANGED <<driverVars, clock, beginVars, clears, written>>

\* lines 421-434: build the WRITE packet with the baud rate and transfer it
TickNegoXfer ==
    /\ pcT = "nego_xfer"
    /\ xfers' = Append(xfers, Xfer(BaudPacket(_baudrate)))
    /\ pcT' = "nego_give"
    /\ UNCHANGED <<driverVars, sem, clock, beginVars, n, rx, cleared,
                   entryInTimer, entryLow, clears, written>>

\* line 436: give()
TickNegoGive ==
    /\ pcT = "nego_give"
    /\ sem' = "free"
    /\ pcT' = "nego_clear"
    /\ UNCHANGED <<driverVars, clock, beginVars, n, rx, xfers, cleared,
                   entryInTimer, entryLow, clears, written>>

\* line 440: _need_set_baud = false
TickNegoClear ==
    /\ pcT = "nego_clear"
    /\ _need_set_baud' = FALSE
    /\ cleared' = TRUE
    /\ clears' = IF _need_set_baud THEN clears + 1 ELSE clears
    /\ pcT' = "chk_init"
    /\ UNCHANGED <<device_path, hwTicks, _external, _initialised, _in_timer, _baudrate,
                   _last_update_timestamp, _readbuf, _writebuf, sem, clock,
                   beginVars, n, rx, xfers, entryInTimer, entryLow, written>>

\* line 444: if (!_initialised) return
TickChkInit ==
    /\ pcT = "chk_init"
    /\ \/ /\ ~_initialised
          /\ TickReturn
       \/ /\ _initialised
          /\ pcT' = "chk_time"
          /\ UNCHANGED <<n, rx, xfers, cleared, entryInTimer, entryLow>>
    /\ UNCHANGED <<driverVars, sem, clock, beginVars, clears, written>>

\* mutant: no rate limit
TickChkTime_NoLimit ==
    /\ pcT = "chk_time"
    /\ _in_timer' = TRUE
    /\ pcT' = "data_take"
    /\ UNCHANGED <<n, rx, xfers, cleared, entryInTimer, entryLow>>
    /\ UNCHANGED <<device_path, hwTicks, _external, _initialised, _need_set_baud, _baudrate,
                   _last_update_timestamp, _readbuf, _writebuf, sem, clock,
                   beginVars, clears, written>>

\* lines 447-451: the rate limit, then _in_timer = true
TickChkTime ==
    /\ pcT = "chk_time"
    /\ \/ /\ Elapsed < RPIOUART_POLL_TIME_INTERVAL
          /\ TickReturn
          /\ UNCHANGED _in_timer
       \/ /\ ~(Elapsed < RPIOUART_POLL_TIME_INTERVAL)
          /\ _in_timer' = TRUE
          /\ pcT' = "data_take"
          /\ UNCHANGED <<n, rx, xfers, cleared, entryInTimer, entryLow>>
    /\ UNCHANGED <<device_path, hwTicks, _external, _initialised, _need_set_baud, _baudrate,
                   _last_update_timestamp, _readbuf, _writebuf, sem, clock,
                   beginVars, clears, written>>

\* mutant: the result of take_nonblocking() is ignored
TickDataTake_Unchecked ==
    /\ pcT = "data_take"
    /\ sem' = IF sem = "free" THEN "rpio" ELSE sem
    /\ pcT' = "out_avail"
    /\ UNCHANGED <<n, rx, xfers, cleared, entryInTimer, entryLow>>
    /\ UNCHANGED <<driverVars, clock, beginVars, clears, written>>

\* lines 453-457: take_nonblocking() of the data step
TickDataTake ==
    /\ pcT = "data_take"
    /\ \/ /\ sem = "free"
          /\ sem' = "rpio"
          /\ pcT' = "out_avail"
          /\ UNCHANGED <<n, rx, xfers, cleared, entryInTimer, entryLow>>
       \/ /\ sem # "free"
          /\ sem' = sem
          /\ TickReturn
    /\ UNCHANGED <<driverVars, clock, beginVars, clears, written>>

\* lines 460-469: n = _writebuf.available(), clamped to the packet and the budget
TickOutAvail ==
    /\ pcT = "out_avail"
    /\ n' = OutboundCount(BufAvailable(_writebuf), _baudrate)
    /\ pcT' = "out_read"
    /\ UNCHANGED <<driverVars, sem, clock, beginVars, rx, xfers, cleared,
                   entryInTimer, entryLow, clears, written>>

\* lines 471-484: drain n bytes into the packet, build it and transfer it
TickOutXfer ==
    /\ pcT = "out_read"
    /\ _writebuf' = BufRead(_writebuf, n)
    /\ xfers' = Append(xfers, Xfer(UartPacket(Take(_writebuf.data, n), n)))
    /\ pcT' = "in_xfer"
    /\ UNCHANGED <<device_path, hwTicks, _external, _initialised, _in_timer, _need_set_baud,
                   _baudrate, _last_update_timestamp, _readbuf, sem, clock,
                   beginVars, n, rx, cleared, entryInTimer, entryLow, clears,
                   written>>

\* lines 487-496: build the READ packet, transfer it; the response is resp
TickInXfer(resp) ==
    /\ pcT = "in_xfer"
    /\ xfers' = Append(xfers, Xfer(ReadPacket))
    /\ rx' = resp
    /\ pcT' = "data_give"
    /\ UNCHANGED <<driverVars, sem, clock, beginVars, n, cleared, entryInTimer,
                   entryLow, clears, written>>

\* line 499: give()
TickDataGive ==
    /\ pcT = "data_give"
    /\ sem' = "free"
    /\ pcT' = "in_append"
    /\ UNCHANGED <<driverVars, clock, beginVars, n, rx, xfers, cleared,
                   entryInTimer, entryLow, clears, written>>

\* mutant: the payload is appended whatever the page of the response
TickInAppend_NoPageCheck ==
    /\ pcT = "in_append"
    /\ _readbuf' = BufWrite(_readbuf,
           BytesOfRegs(rx.regs, InboundCount(BufSpace(_readbuf), rx)))
    /\ n' = 0
    /\ pcT' = "clr_in_timer"
    /\ UNCHANGED <<device_path, hwTicks, _external, _initialised, _in_timer, _need_set_baud,
                   _baudrate, _last_update_timestamp, _writebuf, sem, clock,
                   beginVars, rx, xfers, cleared, entryInTimer, entryLow, clears,
                   written>>

\* lines 502-515: n = _readbuf.space(); on a page match append the payload
\* (n is not read again)
TickInAppend ==
    /\ pcT = "in_append"
    /\ \/ /\ rx.page = PX4IO_PAGE_UART_BUFFER
          /\ _readbuf' = BufWrite(_readbuf,
                 BytesOfRegs(rx.regs, InboundCount(BufSpace(_readbuf), rx)))
       \/ /\ rx.page # PX4IO_PAGE_UART_BUFFER
          /\ UNCHANGED _readbuf
    /\ n' = 0
    /\ pcT' = "clr_in_timer"
    /\ UNCHANGED <<device_path, hwTicks, _external, _initialised, _in_timer, _need_set_baud,
                   _baudrate, _last_update_timestamp, _writebuf, sem, clock,
                   beginVars, rx, xfers, cleared, entryInTimer, entryLow, clears,
                   written>>

\* line 517: _in_timer = false (_dma_packet_rx is not read again)
TickClrInTimer ==
    /\ pcT = "clr_in_timer"
    /\ _in_timer' = FALSE
    /\ pcT' = "stamp"
    /\ rx' = ZeroPacket
    /\ UNCHANGED <<device_path, hwTicks, _external, _initialised, _need_set_baud, _baudrate,
                   _last_update_timestamp, _readbuf, _writebuf, sem, clock,
                   beginVars, n, xfers, cleared, entryInTimer, entryLow,
                   clears, written>>

\* line 519: _last_update_timestamp = AP_HAL::micros(), and return
TickStamp ==
    /\ pcT = "stamp"
    /\ _last_update_timestamp' = clock
    /\ TickReturn
    /\ UNCHANGED <<device_path, hwTicks, _external, _initialised, _in_timer, _need_set_baud,
                   _baudrate, _readbuf, _writebuf, sem, clock, beginVars, clears,
                   written>>

(***************************************************************************)
(* Application reads and writes, the bus, the clock                         *)
(***************************************************************************)
\* the bytes the application writes are numbered: byte k of the run has value k
AppBytes(k) == [i \in 1..k |-> written + i]

\* write(bytes): as many bytes as fit are appended to the outbound buffer
AppWrite(k) ==
    /\ pcB = "idle"
    /\ ~_external
    /\ _initialised
    /\ written + k <= MaxWrites
    /\ _writebuf' = BufWrite(_writebuf, AppBytes(k))
    /\ written' = written + Min(k, BufSpace(_writebuf))
    /\ UNCHANGED <<device_path, hwTicks, _external, _initialised, _in_timer, _need_set_baud,
                   _baudrate, _last_update_timestamp, _readbuf, sem, clock,
                   beginVars, tickVars, clears>>

\* read(max): up to max bytes are taken from the inbound buffer
AppRead(k) ==
    /\ pcB = "idle"
    /\ ~_external
    /\ _initialised
    /\ BufAvailable(_readbuf) > 0
    /\ _readbuf' = BufRead(_readbuf, k)
    /\ UNCHANGED <<device_path, hwTicks, _external, _initialised, _in_timer, _need_set_baud,
                   _baudrate, _last_update_timestamp, _writebuf, sem, clock,
                   beginVars, tickVars, clears, written>>

\* another user of the bus takes and gives the semaphore
OtherTake ==
    /\ sem = "free"
    /\ sem' = "other"
    /\ UNCHANGED <<driverVars, clock, beginVars, tickVars, clears, written>>

OtherGive ==
    /\ sem = "other"
    /\ sem' = "free"
    /\ UNCHANGED <<driverVars, clock, beginVars, tickVars, clears, written>>

\* the monotonic clock advances
ClockAdvance ==
    /\ clock + ClockStep <= MaxClockSteps * ClockStep
    /\ clock' = clock + ClockStep
    /\ UNCHANGED <<driverVars, sem, beginVars, tickVars, clears, written>>

\* the monotonic clock advances without end: once the clock of the model is at
\* its bound, the origin of time moves on by one step instead, which lowers the
\* timestamp by one step (not below 0: the elapsed time is then at the bound,
\* above the poll interval either way)
ClockAdvanceShift ==
    /\ IF clock + ClockStep <= MaxClockSteps * ClockStep
       THEN /\ clock' = clock + ClockStep
            /\ UNCHANGED _last_update_timestamp
       ELSE /\ clock' = clock
            /\ _last_update_timestamp' =
                  IF _last_update_timestamp >= ClockStep
                  THEN _last_update_timestamp - ClockStep ELSE 0
    /\ UNCHANGED <<device_path, hwTicks, _external, _initialised, _in_timer,
                   _need_set_baud, _baudrate, _readbuf, _writebuf, sem,
                   beginVars, tickVars, clears, written>>

\* what the remote side answers to a READ: any page, offset and payload, as long
\* as the inbound buffer stays within the bound of the model
JunkRegs == RegsOfBytes([i \in 1..PktBytes |-> 100 + i])

Responses ==
    {[count_code |-> 0, page |-> p, offset |-> o, regs |-> JunkRegs] :
        p \in {PX4IO_PAGE_UART_BUFFER, 0}, o \in RxOffsets}

ResponseFits(resp) ==
    \/ resp.page # PX4IO_PAGE_UART_BUFFER
    \/ BufAvailable(_readbuf) + InboundCount(BufSpace(_readbuf), resp) <= MaxInbound

\* a remote side that echoes the last bulk-transfer packet it received
EchoResponse ==
    LET last == xfers[Len(xfers)].pkt
    IN  [count_code |-> 0, page |-> PX4IO_PAGE_UART_BUFFER,
         offset |-> last.offset, regs |-> last.regs]

(***************************************************************************)
(* Specifications                                                           *)
(***************************************************************************)
\* begin() with its inputs drawn from the given sets; again: begin() may be
\* called on a transport that begin() was called on before
BeginStepOf(bauds, sizes, oks, again) ==
    \/ \E b \in bauds, rxS \in sizes, txS \in sizes :
          (again \/ begins = 0) /\ BeginCall(b, rxS, txS)
    \/ BeginWaitTimer
    \/ \E rOk \in oks, wOk \in oks : BeginSetSize(rOk, wOk)
    \/ BeginSetBaud
    \/ BeginFinish

TickStep ==
    \/ TickEnter
    \/ TickNegoTake
    \/ TickNegoXfer
    \/ TickNegoGive
    \/ TickNegoClear
    \/ TickChkInit
    \/ TickChkTime
    \/ TickDataTake
    \/ TickOutAvail
    \/ TickOutXfer
    \/ TickDataGive
    \/ TickInAppend
    \/ TickClrInTimer
    \/ TickStamp

BusStep ==
    \/ OtherTake
    \/ OtherGive
    \/ ClockAdvance

\* The driver with every baud rate, buffers of the threshold size, and a remote
\* side that answers anything
Next ==
    \/ BeginStepOf(Bauds, {MIN_BUF_SIZE}, {TRUE}, TRUE)
    \/ TickStep
    \/ \E resp \in Responses : ResponseFits(resp) /\ TickInXfer(resp)
    \/ \E k \in 1..MaxChunk : AppWrite(k)
    \/ AppRead(MaxInbound)
    \/ BusStep

Spec == Init /\ [][Next]_vars

\* One begin(), then writes relayed through a remote side that echoes; nothing
\* is read, so the inbound buffer holds all that was appended to it
NextEcho ==
    \/ BeginStepOf(Bauds, {MIN_BUF_SIZE}, {TRUE}, FALSE)
    \/ TickStep
    \/ TickInXfer(EchoResponse)
    \/ \E k \in 1..MaxChunk : AppWrite(k)
    \/ BusStep

SpecEcho == Init /\ [][NextEcho]_vars

\* begin() with every requested size, and buffers that may fail to be sized
NextSizes ==
    \/ BeginStepOf({57600}, ReqSizes, BOOLEAN, TRUE)
    \/ TickStep
    \/ TickInXfer(EchoResponse)
    \/ BusStep

SpecSizes == Init /\ [][NextSizes]_vars

\* The transport on a board with no hardware serial device, with one that
\* initialises, and with one that does not: the device path is set before
\* begin() is called and stays
InitDevice ==
    \E d \in {"null", "dev", "bad"} :
        /\ device_path = d
        /\ hwTicks = 0
        /\ _external = FALSE
        /\ _initialised = FALSE
        /\ _in_timer = FALSE
        /\ _need_set_baud = FALSE
        /\ _baudrate = 0
        /\ _last_update_timestamp = 0
        /\ _readbuf = [size |-> 0, data |-> <<>>]
        /\ _writebuf = [size |-> 0, data |-> <<>>]
        /\ sem = "free"
        /\ clock = 0
        /\ pcB = "idle"
        /\ argB = NoArgs
        /\ pcT = "idle"
        /\ n = 0
        /\ rx = ZeroPacket
        /\ xfers = <<>>
        /\ cleared = FALSE
        /\ entryInTimer = FALSE
        /\ entryLow = FALSE
        /\ clears = 0
        /\ written = 0
        /\ begins = 0

NextDevice ==
    \/ \E b \in DeviceBauds : BeginExternal(b, MIN_BUF_SIZE, MIN_BUF_SIZE)
    \/ BeginStepOf(DeviceBauds, {MIN_BUF_SIZE}, {TRUE}, TRUE)
    \/ TickExternal
    \/ TickStep
    \/ TickInXfer(EchoResponse)
    \/ BusStep

SpecDevice == InitDevice /\ [][NextDevice]_vars

\* The transport after begin(57600, 1024, 1024) and many poll cycles whose bytes
\* the application did not read: the inbound buffer is full or a few bytes from
\* full.  begin() is not called again and nothing is read or written.
InitFull ==
    \E space \in 0..(PktBytes + 1) :
        /\ device_path = "null"
        /\ hwTicks = 0
        /\ _external = FALSE
        /\ _initialised = TRUE
        /\ _in_timer = FALSE
        /\ _need_set_baud = FALSE
        /\ _baudrate = 57600
        /\ _last_update_timestamp = 0
        /\ _readbuf = [size |-> MIN_BUF_SIZE,
                       data |-> [i \in 1..(MIN_BUF_SIZE - space) |-> 0]]
        /\ _writebuf = [size |-> MIN_BUF_SIZE, data |-> <<>>]
        /\ sem = "free"
        /\ clock = 0
        /\ pcB = "idle"
        /\ argB = NoArgs
        /\ pcT = "idle"
        /\ n = 0
        /\ rx = ZeroPacket
        /\ xfers = <<>>
        /\ cleared = FALSE
        /\ entryInTimer = FALSE
        /\ entryLow = FALSE
        /\ clears = 1
        /\ written = 0
        /\ begins = 1

\* the offsets of the responses: those of RxOffsets and the largest a 16 bit
\* field holds
FullOffsets == RxOffsets \cup {U16 - 1}

FullResponses ==
    {[count_code |-> 0, page |-> p, offset |-> o, regs |-> JunkRegs] :
        p \in {PX4IO_PAGE_UART_BUFFER, 0}, o \in FullOffsets}

\* the steps of a tick when no negotiation is pending
TickDataStep ==
    \/ TickEnter
    \/ TickChkInit
    \/ TickChkTime
    \/ TickDataTake
    \/ TickOutAvail
    \/ TickOutXfer
    \/ TickDataGive
    \/ TickInAppend
    \/ TickClrInTimer
    \/ TickStamp

NextFull ==
    \/ TickDataStep
    \/ \E resp \in FullResponses : TickInXfer(resp)
    \/ BusStep

SpecFull == InitFull /\ [][NextFull]_vars

\* One begin() on a fresh transport.  The timer keeps calling _timer_tick() and
\* each call runs to its end, begin() keeps polling, another holder of the
\* semaphore gives it back, and a take_nonblocking() that finds the semaphore
\* free again and again succeeds.
NextLive ==
    \/ BeginStepOf(Bauds, {MIN_BUF_SIZE}, {TRUE}, FALSE)
    \/ TickStep
    \/ TickInXfer(EchoResponse)
    \/ BusStep

BeginProgress == BeginWaitTimer \/ BeginSetSize(TRUE, TRUE) \/ BeginSetBaud \/ BeginFinish

TickNegoTakeOk == sem = "free" /\ TickNegoTake

SpecLive ==
    /\ Init
    /\ [][NextLive]_vars
    /\ WF_vars(TickStep \/ TickInXfer(EchoResponse))
    /\ WF_vars(BeginProgress)
    /\ WF_vars(OtherGive)
    /\ SF_vars(TickNegoTakeOk)

TickDataTakeOk == sem = "free" /\ TickDataTake

\* begin() called again and again, with the scheduling of SpecLive; a
\* take_nonblocking() of the data step that finds the semaphore free again and
\* again succeeds as well.
NextRelive ==
    \/ BeginStepOf(DeviceBauds, {MIN_BUF_SIZE}, {TRUE}, TRUE)
    \/ TickStep
    \/ TickInXfer(EchoResponse)
    \/ BusStep

SpecRelive ==
    /\ Init
    /\ [][NextRelive]_vars
    /\ WF_vars(TickStep \/ TickInXfer(EchoResponse))
    /\ WF_vars(BeginProgress)
    /\ WF_vars(OtherGive)
    /\ SF_vars(TickNegoTakeOk)
    /\ SF_vars(TickDataTakeOk)

\* One begin(), then writes, with a clock that advances without end.  A tick
\* that was invoked runs to its end and the timer keeps invoking ticks.
NextDrain ==
    \/ BeginStepOf(DrainBauds, {MIN_BUF_SIZE}, {TRUE}, FALSE)
    \/ TickStep
    \/ TickInXfer(EchoResponse)
    \/ \E k \in 1..MaxChunk : AppWrite(k)
    \/ OtherTake
    \/ OtherGive
    \/ ClockAdvanceShift

SpecDrain ==
    /\ Init
    /\ [][NextDrain]_vars
    /\ WF_vars(TickStep \/ TickInXfer(EchoResponse))
    /\ WF_vars(BeginProgress)

(***************************************************************************)
(* Properties                                                               *)
(***************************************************************************)
\* the positions of a tick at which the driver holds the semaphore
HoldingSteps == {"nego_xfer", "nego_give", "out_avail", "out_read", "in_xfer", "data_give"}

\* the positions of a tick from the data step's lock attempt on
DataSteps == {"data_take", "out_avail", "out_read", "in_xfer", "data_give",
              "in_append", "clr_in_timer", "stamp"}

\* the byte budget of one cycle without the 16 bit truncation
Budget(baud) == (baud \div 10) \div (1000000 \div RPIOUART_POLL_TIME_INTERVAL)

\* C1 (as claimed): in a tick that reaches the outbound step, n is
\* min(bytes available, 2 * PKT_MAX_REGS, baud / 10 / (1000000 / 10000)) for
\* every baud rate, exactly n bytes leave the outbound buffer, and the offset of
\* the outbound packet is n.
C1_Original ==
    [][ /\ (pcT = "out_avail" /\ pcT' = "out_read")
           => n' = Min(Min(BufAvailable(_writebuf), PktBytes), Budget(_baudrate))
        /\ (pcT = "out_read" /\ pcT' = "in_xfer")
           => /\ BufAvailable(_writebuf) - BufAvailable(_writebuf') = n
              /\ xfers'[Len(xfers')].pkt.offset = n ]_vars

\* C2 (as claimed): a tick in which take_nonblocking() fails, at the negotiation
\* step or at the data step, has changed nothing: it made no bus transfer, it did
\* not clear the negotiation-pending flag, and the buffers and the timestamp are
\* as they were.
C2_Original ==
    [][ (pcT \in {"nego_take", "data_take"} /\ sem # "free" /\ pcT' = "idle")
        => /\ xfers = <<>>
           /\ ~cleared
           /\ UNCHANGED <<_writebuf, _readbuf, _last_update_timestamp,
                          _need_set_baud>> ]_vars

\* C3: begin() returns only with the negotiation-pending flag cleared, the flag
\* was cleared exactly once since begin() set it, only the tick's step at line
\* 440 clears it, and with a non-zero baud rate that tick has sent the WRITE
\* packet holding the baud rate, under the semaphore, before clearing it.
C3_Handshake ==
    [][ /\ (pcB = "wait_baud" /\ pcB' = "idle") => (~_need_set_baud /\ clears = 1)
        /\ (pcB' = "idle") => ~_need_set_baud'
        /\ (_need_set_baud /\ ~_need_set_baud')
           => /\ pcT = "nego_clear" /\ pcT' = "chk_init"
              /\ sem # "rpio"
              /\ _baudrate # 0
                 => xfers = <<[pkt |-> BaudPacket(_baudrate), locked |-> TRUE]>> ]_vars

\* C3 witness: begin() has returned after a negotiation with a non-zero baud rate
C3_Witness ==
    /\ pcB = "idle"
    /\ begins = 1
    /\ clears = 1
    /\ _baudrate # 0
    /\ ~_need_set_baud
    /\ _initialised

\* the bytes the application has written so far, in order
Sent == [i \in 1..written |-> i]

IsPrefix(s, t) == Len(s) <= Len(t) /\ SubSeq(t, 1, Len(s)) = s

\* C4: with a remote side that echoes the outbound packet in its response, the
\* bytes appended to the inbound buffer are the bytes put in the outbound
\* buffer, in the same order: at every moment a prefix of them, and between two
\* ticks all of them but those still waiting in the outbound buffer.
C4_RoundTrip ==
    /\ IsPrefix(_readbuf.data, Sent)
    /\ pcT = "idle" => Sent = _readbuf.data \o _writebuf.data

\* C4 witness: more bytes than one packet holds have been relayed, all of them
C4_Witness ==
    /\ pcT = "idle"
    /\ written > PktBytes
    /\ _writebuf.data = <<>>
    /\ _readbuf.data = Sent

\* C5: when the page of the response is not the UART buffer page, the inbound
\* step appends nothing, whatever offset and payload the response has, and the
\* cycle goes on to its normal end (clearing _in_timer).
C5_PageMismatch ==
    [][ (pcT = "in_append" /\ pcT' # "in_append" /\ rx.page # PX4IO_PAGE_UART_BUFFER)
        => (_readbuf' = _readbuf /\ pcT' = "clr_in_timer") ]_vars

\* C5 witness: a cycle is past its inbound step with a response of another page
\* that reports a payload, and the inbound buffer is empty
C5_Witness ==
    /\ pcT = "clr_in_timer"
    /\ rx.page # PX4IO_PAGE_UART_BUFFER
    /\ rx.offset > 0
    /\ _readbuf.size > 0
    /\ _readbuf.data = <<>>

\* C6 (as claimed): a buffer whose requested size is below the threshold of 1024
\* is sized to that threshold.
C6_Original ==
    pcB = "set_baud"
    => /\ (argB.reqRx < MIN_BUF_SIZE /\ _readbuf.size # 0) => _readbuf.size = MIN_BUF_SIZE
       /\ (argB.reqTx < MIN_BUF_SIZE /\ _writebuf.size # 0) => _writebuf.size = MIN_BUF_SIZE

\* C6 (amended): a buffer whose requested size is below the threshold of 1024 is
\* asked to take the default size 2048, and has that size once sized: never the
\* requested size, and not the threshold either.  A request of 1024 or more is
\* kept.
C6_Amended ==
    /\ pcB \in {"wait_timer", "set_size", "set_baud", "wait_baud"}
       => /\ argB.rxS = (IF argB.reqRx < MIN_BUF_SIZE THEN DEFAULT_BUF_SIZE ELSE argB.reqRx)
          /\ argB.txS = (IF argB.reqTx < MIN_BUF_SIZE THEN DEFAULT_BUF_SIZE ELSE argB.reqTx)
    /\ pcB \in {"set_baud", "wait_baud"}
       => /\ _readbuf.size \in {0, argB.rxS}
          /\ _writebuf.size \in {0, argB.txS}
          /\ (argB.reqRx < MIN_BUF_SIZE /\ _readbuf.size # 0)
             => _readbuf.size = DEFAULT_BUF_SIZE
          /\ (argB.reqTx < MIN_BUF_SIZE /\ _writebuf.size # 0)
             => _writebuf.size = DEFAULT_BUF_SIZE

\* C6 witness: both buffers sized after requests below the threshold
C6_Witness ==
    /\ pcB = "set_baud"
    /\ argB.reqRx = 1023
    /\ argB.reqTx = 0
    /\ _readbuf.size = DEFAULT_BUF_SIZE
    /\ _writebuf.size = DEFAULT_BUF_SIZE

\* C7: the first begin() on a fresh transport returns, for every baud rate,
\* unless the semaphore is withheld for ever: the tick keeps attempting the lock
\* of the negotiation step and, from some moment on, every attempt finds the
\* semaphore taken.
C7_BeginReturns ==
    \/ /\ []<>(pcT = "nego_take")
       /\ <>[](pcT = "nego_take" => sem # "free")
    \/ (begins = 1 /\ pcB # "idle") ~> (pcB = "idle")

\* C7 witness: the first begin() has returned after a negotiation
C7_Witness ==
    /\ begins = 1
    /\ pcB = "idle"
    /\ _baudrate # 0
    /\ clears = 1

\* C8 (as claimed): a tick invoked while _in_timer is set returns at once: it
\* never holds the semaphore and makes no bus transfer.
C8_Original ==
    (pcT # "idle" /\ entryInTimer) => (sem # "rpio" /\ xfers = <<>>)

C10_LockDiscipline ==
    /\ \A i \in 1..Len(xfers) : xfers[i].locked
    /\ (sem = "rpio") <=> (pcT \in HoldingSteps)
    /\ pcT = "idle" => sem # "rpio"

\* C10 witness: a tick that made all three transfers, about to give the semaphore
C10_Witness ==
    /\ pcT = "data_give"
    /\ sem = "rpio"
    /\ Len(xfers) = 3

C12_Original ==
    [][ /\ _in_timer' => pcT' \in DataSteps
        /\ (pcT # "idle" /\ pcT' = "idle") => ~_in_timer'
        /\ (pcT = "stamp" /\ pcT' = "idle") => _in_timer ]_vars

\* C13 (as claimed): the transfers of one tick are made within one holding of
\* the semaphore: a tick that has transferred does not take the semaphore again
\* (it never gave it between two transfers), and a tick whose lock attempt fails
\* has transferred nothing.
C13_Original ==
    [][ /\ (sem # "rpio" /\ sem' = "rpio") => xfers = <<>>
        /\ (pcT \in {"nego_take", "data_take"} /\ sem # "free" /\ pcT' = "idle")
           => xfers = <<>> ]_vars

\* C14: a tick that finds the negotiation pending with a zero baud rate goes
\* straight to clearing the flag, whoever holds the semaphore: it neither takes
\* the semaphore nor transfers.  With a non-zero baud rate the tick attempts the
\* semaphore, and a tick whose attempt fails returns with the flag still set.
C14_ZeroBaud ==
    [][ /\ (pcT = "idle" /\ pcT' # "idle" /\ _need_set_baud /\ _baudrate = 0)
           => (pcT' = "nego_clear" /\ sem' = sem /\ xfers' = <<>>)
        /\ (pcT = "nego_clear" /\ pcT' # "nego_clear" /\ _baudrate = 0)
           => (~_need_set_baud' /\ sem' = sem /\ xfers = <<>> /\ xfers' = <<>>)
        /\ (pcT = "idle" /\ pcT' # "idle" /\ _need_set_baud /\ _baudrate # 0)
           => pcT' = "nego_take"
        /\ (pcT = "nego_take" /\ pcT' # "nego_take" /\ sem # "free")
           => (_baudrate # 0 /\ _need_set_baud /\ _need_set_baud' /\ pcT' = "idle") ]_vars

\* C14 witness: with a zero baud rate a tick has cleared the flag, without a
\* transfer, while another bus user holds the semaphore, and begin() still waits
C14_Witness ==
    /\ pcT = "chk_init"
    /\ cleared
    /\ _baudrate = 0
    /\ sem = "other"
    /\ xfers = <<>>
    /\ pcB = "wait_baud"
    /\ ~_need_set_baud

\* C16 (as claimed): every packet a tick transfers has the UART buffer page as
\* its page, the READ packet of the inbound step included, and the READ packet
\* has the READ opcode, count 0 and an empty payload.
C16_Original ==
    \A i \in 1..Len(xfers) :
        /\ xfers[i].pkt.page = PX4IO_PAGE_UART_BUFFER
        /\ xfers[i].pkt.count_code = PKT_CODE_READ => xfers[i].pkt.regs = ZeroRegs

\* C17 (as claimed): _need_set_baud implies ~_initialised in every state, and
\* no tick starts the outbound or the inbound step while _need_set_baud is set.
C17_Original ==
    [][ /\ _need_set_baud' => ~_initialised'
        /\ (pcT' # pcT /\ pcT' \in {"out_avail", "in_xfer"}) => ~_need_set_baud ]_vars

\* the positions of a tick between its test of _initialised and its last access
\* to a buffer
BufferSteps == {"chk_time", "data_take", "out_avail", "out_read", "in_xfer",
                "data_give", "in_append"}

\* C18 (as claimed): begin() sizes the buffers only when no tick is between its
\* test of _initialised and its last access to a buffer.
C18_Original ==
    [][ (pcB = "set_size" /\ pcB' = "set_baud") => pcT \notin BufferSteps ]_vars

\* C15: in a cycle whose response has the UART buffer page, the bytes appended
\* to the inbound buffer are the first k bytes of the response's register array,
\* k = min(space of the inbound buffer, 2 * PKT_MAX_REGS, offset of the
\* response), for every offset; so the inbound buffer never holds more than its
\* size, and no byte past the register array is read.
C15_InboundCount ==
    [][ /\ Len(_readbuf'.data) <= _readbuf'.size
        /\ (pcT = "in_append" /\ pcT' = "clr_in_timer"
               /\ rx.page = PX4IO_PAGE_UART_BUFFER)
           => LET k == Min(Min(BufSpace(_readbuf), 2 * PKT_MAX_REGS), rx.offset)
              IN  /\ k <= 2 * PKT_MAX_REGS
                  /\ Len(_readbuf'.data) = Len(_readbuf.data) + k
                  /\ _readbuf'.data = _readbuf.data
                         \o SubSeq(BytesOfRegs(rx.regs, 2 * PKT_MAX_REGS), 1, k) ]_vars

\* C15 witness: a response that reports more bytes than a packet holds met an
\* inbound buffer with room for two: the first two bytes of the payload were
\* appended and the buffer is full
C15_Witness ==
    /\ pcT = "clr_in_timer"
    /\ rx.page = PX4IO_PAGE_UART_BUFFER
    /\ rx.offset > 2 * PKT_MAX_REGS
    /\ Len(_readbuf.data) = _readbuf.size
    /\ _readbuf.data[_readbuf.size] = JunkRegs[1] \div 256
    /\ _readbuf.data[_readbuf.size - 1] = JunkRegs[1] % 256
    /\ _readbuf.data[_readbuf.size - 2] = 0

\* C19 (as claimed): a begin() called on a transport whose buffers an earlier
\* begin() sized returns, whatever ticks ran before, unless the semaphore is
\* withheld for ever (ticks keep attempting it and, from some moment on, every
\* attempt finds it taken).
C19_Original ==
    \/ /\ []<>(pcT \in {"nego_take", "data_take"})
       /\ <>[](pcT \in {"nego_take", "data_take"} => sem # "free")
    \/ (pcB = "wait_timer" /\ _readbuf.size # 0) ~> (pcB = "idle")

\* C20 (as claimed): for every baud rate, when ticks reach the outbound step
\* again and again (the interval has elapsed and the semaphore was taken), an
\* outbound buffer that holds bytes becomes empty.
C20_Original ==
    []<>(pcT = "out_avail")
    => ((_initialised /\ BufAvailable(_writebuf) > 0)
           ~> (BufAvailable(_writebuf) = 0))

\* C20 (amended): the same for the baud rates whose byte budget, as the tick
\* computes it in 16 bits, is at least 1.  With a budget of 0 (a baud rate below
\* 1000, or one whose budget is a multiple of 65536) no byte ever leaves.
C20_Amended ==
    []<>(pcT = "out_avail")
    => ((_initialised /\ MaxSize(_baudrate) > 0 /\ BufAvailable(_writebuf) > 0)
           ~> (BufAvailable(_writebuf) = 0))

\* C20 witness: with the baud rate whose budget is 2 in 16 bits, more bytes than
\* one packet holds were written and all of them have left the outbound buffer
C20_Witness ==
    /\ pcT = "idle"
    /\ _initialised
    /\ MaxSize(_baudrate) = 2
    /\ written > 2 * PKT_MAX_REGS
    /\ _writebuf.data = <<>>
    /\ _readbuf.data = Sent

====
